---- MODULE Spec2Model ----
(***************************************************************************)
(* A model of pymed's PubMed client (src/pymed/api.py): the rate limiter   *)
(* (_exceededRateLimit, _get), the id-list partitioner (_getArticleIds),   *)
(* the record fetcher (_getArticles) and the public operations.            *)
(*                                                                         *)
(* Representation of data.                                                 *)
(*  - A list of article ids is a sequence of runs <<lo, hi>>, each standing *)
(*    for the consecutive ids lo, lo+1, ..., hi, in normal form (no run     *)
(*    continues the one before it), so two lists are equal exactly when     *)
(*    their representations are equal.  len, concat and slice are Python's  *)
(*    len(), + and [i:j] on that representation.                            *)
(*  - A list of decoded records is a sequence of runs <<kind, lo, hi>>.     *)
(*  - A dict is a function from its keys (strings) to its values.           *)
(*  - A date string "y/m/d" (the f-string of lines 260-261) is the triple   *)
(*    of its three "/"-separated fields.                                    *)
(*  - _requestsMade holds, per recorded request, now - requestTime in clock *)
(*    ticks (saturating at Second), the only quantity line 162 reads.       *)
(***************************************************************************)
EXTENDS Integers, Sequences, FiniteSets, TLC

\* ------------------------------------------------------------------ bounds

\* Clock ticks per second: the granularity of time in the model.
Second == 2

\* batch_query is called with the batch sizes 1..MaxBatchSize and those of
\* OtherBatchSizes.
MaxBatchSize == 2

\* ------------------------------------------------------- program constants

\* self._rateLimit = 3
_rateLimit == 3

\* parameters["retmax"] = 10000
RetMax == 10000

\* batches(article_ids, 250) in query and get_publications_from_ids
FetchBatchSize == 250

\* max_results=10000000 in batch_query
BatchQueryMaxResults == 10000000

\* parameters["retmax"] = 1 in getTotalResultsCount
CountRetMax == 1

\* The default date window of _getArticleIds.
DefaultWindow ==
    [min_year |-> 1000, max_year |-> 3000, min_month |-> 1, max_month |-> 12,
     min_day |-> 1, max_day |-> 31]

\* ------------------------------------------------------------- arithmetic

Min(a, b) == IF a < b THEN a ELSE b

Max(a, b) == IF a > b THEN a ELSE b

\* ---------------------------------------------------------------- id lists

\* Python's len() of an id list.
RECURSIVE len(_)
len(ids) ==
    IF ids = <<>> THEN 0
    ELSE (ids[1][2] - ids[1][1] + 1) + len(Tail(ids))

\* Python's list concatenation (article_ids += more).
concat(a, b) ==
    IF a = <<>> THEN b
    ELSE IF b = <<>> THEN a
    ELSE IF a[Len(a)][2] + 1 = b[1][1]
         THEN SubSeq(a, 1, Len(a) - 1) \o << <<a[Len(a)][1], b[1][2]>> >> \o Tail(b)
         ELSE a \o b

\* Python's ids[i:j] for 0 <= i <= j <= len(ids).
RECURSIVE slice(_, _, _)
slice(ids, i, j) ==
    IF ids = <<>> \/ j <= i THEN <<>>
    ELSE LET lo == ids[1][1]
             hi == ids[1][2]
             n  == hi - lo + 1
         IN  IF i >= n THEN slice(Tail(ids), i - n, j - n)
             ELSE IF j <= n THEN << <<lo + i, lo + j - 1>> >>
             ELSE << <<lo + i, hi>> >> \o slice(Tail(ids), 0, j - n)

\* helpers.batches(iterable, n): the slices iterable[index : min(index + n,
\* length)] for index in range(0, length, n).
batches(iterable, n) ==
    LET length == len(iterable)
    IN  [k \in 1..((length + n - 1) \div n) |->
            slice(iterable, (k - 1) * n, Min(k * n, length))]

\* ------------------------------------------------------------------- dicts

\* d[k] = v
SetItem(d, k, v) == [x \in DOMAIN d \cup {k} |-> IF x = k THEN v ELSE d[x]]

\* --------------------------------------------------------- the remote server

\* The remote database: a sequence of entries, in the server's order (by date),
\* each the articles of one day: date <<y, m, d>>, the run of their ids, the
\* shape of their record and the search terms they match.
Article == "PubmedArticle"

Book == "PubmedBookArticle"

DateLE(a, b) ==
    \/ a[1] < b[1]
    \/ a[1] = b[1] /\ a[2] < b[2]
    \/ a[1] = b[1] /\ a[2] = b[2] /\ a[3] <= b[3]

RECURSIVE IdsOf(_)
IdsOf(entries) ==
    IF entries = <<>> THEN <<>>
    ELSE concat(<<entries[1].ids>>, IdsOf(Tail(entries)))

\* The entries a search request matches: those of its term, within its date
\* window if it names one.
Matching(srv, params) ==
    LET hit(e) ==
            /\ params["term"] \in e.terms
            /\ "mindate" \in DOMAIN params =>
                   /\ DateLE(params["mindate"], e.date)
                   /\ DateLE(e.date, params["maxdate"])
    IN  SelectSeq(srv, hit)

\* The esearch endpoint: the total match count and the first retmax ids.
esearch(srv, params) ==
    LET all == IdsOf(Matching(srv, params))
    IN  [count  |-> len(all),
         idlist |-> slice(all, 0, Min(params["retmax"], len(all)))]

\* The records of one run of ids, in the server's order.
RECURSIVE RecordsOfRun(_, _)
RecordsOfRun(srv, run) ==
    IF srv = <<>> THEN <<>>
    ELSE LET e  == srv[1]
             lo == Max(run[1], e.ids[1])
             hi == Min(run[2], e.ids[2])
         IN  (IF lo <= hi THEN << <<e.kind, lo, hi>> >> ELSE <<>>)
                 \o RecordsOfRun(Tail(srv), run)

\* The efetch endpoint: the payload for a batch of ids, one record per known
\* id, in the order of the ids asked for.
RECURSIVE efetch(_, _)
efetch(srv, ids) ==
    IF ids = <<>> THEN <<>>
    ELSE RecordsOfRun(srv, ids[1]) \o efetch(srv, Tail(ids))

\* The records _getArticles yields from a payload: every PubmedArticle of it,
\* then every PubmedBookArticle.
IsArticle(r) == r[1] = Article

IsBook(r) == r[1] = Book

parse(payload) == SelectSeq(payload, IsArticle) \o SelectSeq(payload, IsBook)

\* ------------------------------------------------------------ the inputs

Tools == {"my_tool", "other_tool"}

Emails == {"my_email@example.com"}

Queries == {"X", "Y"}

MaxResults == {2, 100, BatchQueryMaxResults}

OtherBatchSizes == {50, FetchBatchSize, FetchBatchSize + 1}

BatchSizes == (1..MaxBatchSize) \cup OtherBatchSizes

\* The id lists get_publications_from_ids is called with: none, a few ids with
\* one asked for twice and one the server does not know, and more than one
\* batch of them.
\* The windows _getArticleIds is called on by a caller of its own: the default
\* one, a few years, a single day.
Windows ==
    {DefaultWindow,
     [DefaultWindow EXCEPT !.min_year = 2019, !.max_year = 2021],
     [min_year |-> 2020, max_year |-> 2020, min_month |-> 1, max_month |-> 1,
      min_day |-> 1, max_day |-> 1]}

IdLists ==
    { <<>>,
      << <<4, 5>>, <<1, 2>>, <<2, 2>>, <<999999, 999999>> >>,
      << <<1, 300>> >> }

\* Few matches: "X" has 5 (on three days, far apart), "Y" has 3 of them.
FewMatches ==
    << [date |-> <<1500, 6, 1>>, ids |-> <<1, 2>>, kind |-> Article,
        terms |-> {"X"}],
       [date |-> <<1990, 5, 17>>, ids |-> <<3, 4>>, kind |-> Book,
        terms |-> {"X", "Y"}],
       [date |-> <<2500, 2, 28>>, ids |-> <<5, 5>>, kind |-> Article,
        terms |-> {"X", "Y"}] >>

\* "X" has 300 matches (more than one fetch batch); "Y" has 25,000, most of
\* them on two single days.
ManyMatches ==
    << [date |-> <<1500, 6, 1>>, ids |-> <<1001, 13400>>, kind |-> Article,
        terms |-> {"Y"}],
       [date |-> <<2019, 3, 5>>, ids |-> <<1, 260>>, kind |-> Article,
        terms |-> {"X"}],
       [date |-> <<2020, 7, 1>>, ids |-> <<261, 300>>, kind |-> Book,
        terms |-> {"X"}],
       [date |-> <<2500, 1, 1>>, ids |-> <<13401, 25800>>, kind |-> Article,
        terms |-> {"Y"}],
       [date |-> <<2900, 11, 30>>, ids |-> <<25801, 26000>>, kind |-> Book,
        terms |-> {"Y"}] >>

\* "X" has 10,001 matches on two days of one year, no day above the cap; "Y"
\* has none.
OverCap ==
    << [date |-> <<2020, 1, 1>>, ids |-> <<1, 5001>>, kind |-> Article,
        terms |-> {"X"}],
       [date |-> <<2020, 1, 2>>, ids |-> <<5002, 10001>>, kind |-> Article,
        terms |-> {"X"}] >>

Databases == {FewMatches, ManyMatches, OverCap}

\* ---------------------------------------------------------------- the state

VARIABLES
    tool,            \* self.tool
    email,           \* self.email
    parameters,      \* self.parameters
    _requestsMade,   \* self._requestsMade
    server,          \* the remote database
    pc,              \* where the caller is
    op,              \* the public operation running (or the last one run)
    status,          \* "new", "running", "returned" or "raised"
    result,          \* what the operation returned
    stack,           \* the frames of _getArticleIds, innermost last
    req,             \* the arguments of the running _get
    response,        \* what requests.get returned to it
    article_ids,     \* the ids the operation fetches the records of
    pending,         \* the batches still to fetch
    articles,        \* the records (or batches of records) produced so far
    issued,          \* requests made by the running operation
    failures,        \* of which failed
    searched,        \* the search responses _getArticleIds has read, in order
    other            \* where a second caller of the same client is in _get

vars ==
    <<tool, email, parameters, _requestsMade, server, pc, op, status,
      result, stack, req, response, article_ids, pending, articles, issued,
      failures, searched, other>>

None == [kind |-> "None"]

NoRequest == [url |-> "", parameters |-> <<>>, output |-> "", ref |-> "",
              caller |-> ""]

NoOp == [name |-> "", query |-> "", max_results |-> 0, batch_size |-> 0]

Init ==
    /\ tool \in Tools
    /\ email \in Emails
    /\ parameters = [tool |-> tool, email |-> email, db |-> "pubmed"]
    /\ _requestsMade = <<>>
    /\ server \in Databases
    /\ pc = "idle"
    /\ op = NoOp
    /\ status = "new"
    /\ result = None
    /\ stack = <<>>
    /\ req = NoRequest
    /\ response = None
    /\ article_ids = <<>>
    /\ pending = <<>>
    /\ articles = <<>>
    /\ issued = 0
    /\ failures = 0
    /\ searched = <<>>
    /\ other = "idle"

\* ------------------------------------------------------------ the limiter

\* A recorded request never leaves the log.
never_expires(age) == TRUE

\* _exceededRateLimit: the log without the requests made a second ago or
\* longer (requestTime > now - 1s, that is now - requestTime < 1s), and whether
\* more than _rateLimit remain.
Recent(age) == age < Second

Pruned(log) == SelectSeq(log, Recent)

\* No check of the limit holds a request back.
never_exceeded(log) == FALSE

\* The limit is two requests higher.
exceeded_by_two(log) == Len(Pruned(log)) > _rateLimit + 2

_exceededRateLimit(log) == Len(Pruned(log)) > _rateLimit

\* Time passes: every recorded request is a tick older.
Elapse ==
    /\ \E i \in 1..Len(_requestsMade) : _requestsMade[i] < Second
    /\ _requestsMade' = [i \in 1..Len(_requestsMade) |->
                            Min(_requestsMade[i] + 1, Second)]
    /\ UNCHANGED <<other, searched, tool, email, parameters, server, pc, op, status, result,
                   stack, req, response, pending, article_ids, articles, issued, failures>>

\* The clock ticks at any moment: between two operations, during the wait for
\* the limiter, during a request.
Tick == Elapse

\* The clock ticks while the caller spins on the limiter, and the rest of the
\* program runs in no time: the schedule of a client that is as fast as its
\* limiter allows.
TickWhileWaiting ==
    /\ pc = "get_check"
    /\ _exceededRateLimit(_requestsMade)
    /\ Elapse

\* ------------------------------------------------------------------ dicts

\* self.parameters and the dict a call works on are two objects, unless the
\* call works on self.parameters itself.  A handle is the object a name is
\* bound to (ref) and the contents of both.
Handle(selfDict) == [ref |-> "self", self |-> selfDict, copy |-> <<>>]

\* parameters = self.parameters: the call works on the client's own dict.
dict_alias(h) == [ref |-> "self", self |-> h.self, copy |-> h.self]

\* parameters = self.parameters.copy()
dict_copy(h) == [ref |-> "copy", self |-> h.self, copy |-> h.self]

\* parameters[k] = v
store(h, k, v) ==
    IF h.ref = "self" THEN [h EXCEPT !.self = SetItem(@, k, v)]
    ELSE [h EXCEPT !.copy = SetItem(@, k, v)]

\* parameters
load(h) == IF h.ref = "self" THEN h.self ELSE h.copy

\* The handle of the dict of the running _get.
RequestHandle ==
    [ref |-> req.ref, self |-> parameters, copy |-> req.parameters]

\* --------------------------------------------------------------------- _get

\* A failed request is made again instead of being raised.
retry_on_failure(ok) == IF ok THEN "get_record" ELSE "get_check"

\* A failed request is recorded like any other.
record_failure(ok) == "get_record"

\* What follows the response of requests.get: raise_for_status() raises on a
\* failure, and the request is recorded otherwise.
raise_for_status(ok) == IF ok THEN "get_record" ELSE "raise"

\* The while loop of _get: one check of the limit, and parameters["retmode"] =
\* output once it passes.
_get_wait ==
    /\ pc = "get_check"
    /\ _requestsMade' = Pruned(_requestsMade)
    /\ IF _exceededRateLimit(_requestsMade)
       THEN UNCHANGED <<pc, req, parameters>>
       ELSE LET h == store(RequestHandle, "retmode", req.output)
            IN  /\ pc' = "get_send"
                /\ req' = [req EXCEPT !.parameters = load(h)]
                /\ parameters' = h.self
    /\ UNCHANGED <<other, searched, tool, email, server, op, status, result, stack, response,
                   pending, article_ids, articles, issued, failures>>

\* What the server answers to the running request.
Answer ==
    IF req.url = "/entrez/eutils/esearch.fcgi"
    THEN esearch(server, req.parameters)
    ELSE [text |-> efetch(server, req.parameters["id"])]

\* requests.get and raise_for_status: the request succeeds or fails (a
\* non-success status, a timeout), and a failure is raised through every
\* caller: nothing of the operation runs after it.
_get_request ==
    /\ pc = "get_send"
    /\ issued' = issued + 1
    /\ \E ok \in BOOLEAN :
          LET next == raise_for_status(ok)
          IN  IF next = "raise"
              THEN /\ failures' = failures + 1
                   /\ pc' = "idle"
                   /\ status' = "raised"
                   /\ stack' = <<>>
                   /\ article_ids' = <<>>
        /\ pending' = <<>>
                   /\ UNCHANGED <<response, result>>
              ELSE /\ failures' = IF ok THEN failures ELSE failures + 1
                   /\ pc' = next
                   /\ response' = IF ok THEN Answer ELSE response
                   /\ UNCHANGED <<status, stack, pending, result>>
    /\ UNCHANGED <<other, searched, tool, email, parameters, _requestsMade, server, op,
                   req, article_ids, articles>>

\* self._requestsMade.append(now) and the return of the response to the
\* caller of _get.
_get_return ==
    /\ pc = "get_record"
    /\ _requestsMade' = Append(_requestsMade, 0)
    /\ pc' = CASE req.caller = "_getArticleIds" -> "ids_response"
               [] req.caller = "_getArticles" -> "fetch_response"
               [] OTHER -> "count_response"
    /\ UNCHANGED <<other, searched, tool, email, parameters, server, op, status, result,
                   stack, req, response, pending, article_ids, articles, issued, failures>>

\* ------------------------------------------------- a second caller in _get

\* What the second caller leaves alone: everything but the log it shares.
OfTheFirst ==
    <<tool, email, parameters, server, pc, op, status, result, stack, req,
      response, pending, article_ids, articles, issued, failures, searched>>

\* A second thread calls _get on the same client.
shared_get ==
    /\ other = "idle"
    /\ other' = "get_check"
    /\ UNCHANGED <<_requestsMade, OfTheFirst>>

\* Its check of the limit: the log is pruned, and it is let through or not.
shared_get_wait ==
    /\ other = "get_check"
    /\ _requestsMade' = Pruned(_requestsMade)
    /\ other' = IF _exceededRateLimit(_requestsMade)
                THEN "get_check" ELSE "get_send"
    /\ UNCHANGED OfTheFirst

\* Its request, which succeeds or raises.
shared_get_request ==
    /\ other = "get_send"
    /\ \E ok \in BOOLEAN :
          other' = IF raise_for_status(ok) = "raise" THEN "idle"
                   ELSE "get_record"
    /\ UNCHANGED <<_requestsMade, OfTheFirst>>

\* Its append to the log.
shared_get_return ==
    /\ other = "get_record"
    /\ _requestsMade' = Append(_requestsMade, 0)
    /\ other' = "idle"
    /\ UNCHANGED OfTheFirst

\* ----------------------------------------------------------- _getArticleIds

\* sorted(S) of a set of integers: the ascending sequence of its elements
\* (those of S within lo..hi, found by halving the range).
RECURSIVE sorted_within(_, _, _)
sorted_within(S, lo, hi) ==
    IF S = {} THEN <<>>
    ELSE IF lo = hi THEN <<lo>>
    ELSE LET mid == (lo + hi) \div 2
         IN  sorted_within({x \in S : x <= mid}, lo, mid)
                 \o sorted_within({x \in S : x > mid}, mid + 1, hi)

sorted(S) ==
    IF S = {} THEN <<>>
    ELSE sorted_within(S, CHOOSE x \in S : \A y \in S : x <= y,
                          CHOOSE x \in S : \A y \in S : x >= y)

\* isinstance(gap / batch_count, float): Python 3's / on two ints is a float,
\* whether or not the division is exact.
isinstance_float(gap, batch_count) == TRUE

\* Every call of the split runs to the end of the window (max_year=max_year):
\* the first call is on the caller's own window.
sub_ranges_to_end(lo, hi, batch_count) ==
    LET gap        == hi - lo
        step       == gap \div batch_count
        boundaries == {lo + (step * i) : i \in 0..(batch_count - 1)}
        order      == sorted(boundaries)
    IN  [k \in 1..Len(order) |->
            <<IF order[k] = lo THEN order[k] ELSE order[k] + 1, hi>>]
        \o << <<hi, hi>> >>

\* Every call of the split starts at its boundary + 1, the first one too.
sub_ranges_from_next(lo, hi, batch_count) ==
    LET gap        == hi - lo
        step       == gap \div batch_count
        boundaries == {lo + (step * i) : i \in 0..(batch_count - 1)}
        order      == sorted(boundaries)
    IN  [k \in 1..Len(order) |-> <<order[k] + 1, order[k] + step>>]
        \o << <<hi, hi>> >>

\* The sub-ranges a split of [lo, hi] recurses on, in the order of the calls:
\* one per boundary lo + step * i, from the boundary (the first) or the boundary
\* + 1 (the others) to the boundary + step, and then [hi, hi].
sub_ranges(lo, hi, batch_count) ==
    LET gap        == hi - lo
        step       == gap \div batch_count
        boundaries == {lo + (step * i) : i \in 0..(batch_count - 1)}
        order      == sorted(boundaries)
    IN  [k \in 1..Len(order) |->
            <<IF order[k] = lo THEN order[k] ELSE order[k] + 1, order[k] + step>>]
        \o (IF isinstance_float(gap, batch_count) THEN << <<hi, hi>> >> ELSE <<>>)

\* The keyword arguments of the recursive calls of a year, month or day split;
\* what a call does not name keeps its default.
year_calls(f, batch_count) ==
    LET r == sub_ranges(f.min_year, f.max_year, batch_count)
    IN  [k \in 1..Len(r) |->
            [DefaultWindow EXCEPT !.min_year = r[k][1], !.max_year = r[k][2]]]

month_calls(f, batch_count) ==
    LET r == sub_ranges(f.min_month, f.max_month, batch_count)
    IN  [k \in 1..Len(r) |->
            [DefaultWindow EXCEPT !.min_year = f.min_year,
                                  !.max_year = f.max_year,
                                  !.min_month = r[k][1], !.max_month = r[k][2]]]

day_calls(f, batch_count) ==
    LET r == sub_ranges(f.min_day, f.max_day, batch_count)
    IN  [k \in 1..Len(r) |->
            [DefaultWindow EXCEPT !.min_year = f.min_year,
                                  !.max_year = f.max_year,
                                  !.min_month = f.min_month,
                                  !.max_month = f.max_month,
                                  !.min_day = r[k][1], !.max_day = r[k][2]]]

\* The frame of a call of _getArticleIds as it makes its request.
Frame(query, max_results, w) ==
    [query |-> query, max_results |-> max_results,
     min_year |-> w.min_year, max_year |-> w.max_year,
     min_month |-> w.min_month, max_month |-> w.max_month,
     min_day |-> w.min_day, max_day |-> w.max_day,
     article_ids |-> <<>>, branch |-> "request", calls |-> <<>>, done |-> 0,
     total_result_count |-> 0]

\* The request of _getArticleIds: a copy of the default parameters, the term,
\* retmax = min(10000, max_results) and the window's dates.
search_parameters(h, f) ==
    LET h0 == dict_copy(h)
        h1 == store(h0, "term", f.query)
        h2 == store(h1, "retmax", RetMax)
        h3 == store(h2, "mindate", <<f.min_year, f.min_month, f.min_day>>)
        h4 == store(h3, "maxdate", <<f.max_year, f.max_month, f.max_day>>)
    IN  IF f.max_results < load(h4)["retmax"]
        THEN store(h4, "retmax", f.max_results)
        ELSE h4

\* A call that gives up keeps the ids of its response.
decide_keep(f, total_result_count, retmax, idlist) ==
    LET g == [f EXCEPT !.total_result_count = total_result_count]
        batch_count == (total_result_count \div retmax) + 1
    IN  IF total_result_count > retmax
        THEN IF f.min_year # f.max_year
             THEN [g EXCEPT !.branch = "year", !.calls = year_calls(f, batch_count)]
             ELSE [g EXCEPT !.branch = "too_many",
                            !.article_ids = concat(f.article_ids, idlist)]
        ELSE [g EXCEPT !.branch = "all",
                       !.article_ids = concat(f.article_ids, idlist)]

\* What the frame does with the response: the branch it takes, the calls it
\* will make and the ids it holds.
decide(f, total_result_count, retmax, idlist) ==
    LET g == [f EXCEPT !.total_result_count = total_result_count]
        batch_count == (total_result_count \div retmax) + 1
    IN  IF total_result_count > retmax
        THEN IF f.min_year # f.max_year
             THEN [g EXCEPT !.branch = "year", !.calls = year_calls(f, batch_count)]
             ELSE IF f.min_month # f.min_month
             THEN [g EXCEPT !.branch = "month",
                            !.calls = month_calls(f, batch_count)]
             ELSE IF f.min_day # f.min_day
             THEN [g EXCEPT !.branch = "day", !.calls = day_calls(f, batch_count)]
             ELSE [g EXCEPT !.branch = "too_many"]
        ELSE [g EXCEPT !.branch = "all",
                       !.article_ids = concat(f.article_ids, idlist)]

Top == stack[Len(stack)]

\* A search response as _getArticleIds read it: the depth of the call, its
\* window, the branch it took on the count and the idlist of the response.
Searched(depth, f, idlist) ==
    [depth |-> depth, branch |-> f.branch, idlist |-> idlist,
     min_year |-> f.min_year, max_year |-> f.max_year,
     min_month |-> f.min_month, max_month |-> f.max_month,
     min_day |-> f.min_day, max_day |-> f.max_day]

\* A call of _getArticleIds, up to its call of _get.
Call_getArticleIds(stk, query, max_results, w) ==
    LET f == Frame(query, max_results, w)
        h == search_parameters(Handle(parameters), f)
    IN  /\ stack' = Append(stk, f)
        /\ parameters' = h.self
        /\ req' = [url |-> "/entrez/eutils/esearch.fcgi", parameters |-> load(h),
                   output |-> "json", ref |-> h.ref, caller |-> "_getArticleIds"]
        /\ pc' = "get_check"

\* The response is read: the call splits its window, gives up or takes the ids.
_getArticleIds_response ==
    /\ pc = "ids_response"
    /\ stack' = [stack EXCEPT ![Len(stack)] =
                    decide(@, response.count, req.parameters["retmax"],
                           response.idlist)]
    /\ searched' = Append(searched, Searched(Len(stack), stack'[Len(stack)],
                                              response.idlist))
    /\ pc' = "ids_loop"
    /\ UNCHANGED <<other, tool, email, parameters, _requestsMade, server, op,
                   status, result, req, response, pending, article_ids, articles, issued,
                   failures>>

\* The next recursive call of a split.
_getArticleIds_recurse ==
    /\ pc = "ids_loop"
    /\ Top.done < Len(Top.calls)
    /\ Call_getArticleIds(stack, Top.query, Top.max_results,
                          Top.calls[Top.done + 1])
    /\ UNCHANGED <<other, searched, tool, email, _requestsMade, server, op, status,
                   result, response, pending, article_ids, articles, issued, failures>>

\* What the public operation does with the ids of its call of _getArticleIds.
AfterIds(ids) ==
    IF op.name \in {"query_publication_ids", "_getArticleIds"}
    THEN /\ result' = [kind |-> "ids", value |-> ids]
         /\ status' = "returned"
         /\ pc' = "idle"
         /\ UNCHANGED <<article_ids, pending>>
    ELSE /\ article_ids' = ids
         /\ pending' = batches(ids, op.batch_size)
         /\ pc' = "fetch_loop"
         /\ UNCHANGED <<result, status>>

\* The caller takes the list of its last call (article_ids = ...) instead of
\* adding it to its own.
_getArticleIds_return_assign ==
    /\ pc = "ids_loop"
    /\ Top.done = Len(Top.calls)
    /\ IF Len(stack) = 1
       THEN /\ stack' = <<>>
            /\ AfterIds(Top.article_ids)
       ELSE /\ stack' = [SubSeq(stack, 1, Len(stack) - 1)
                            EXCEPT ![Len(stack) - 1] =
                                [@ EXCEPT !.article_ids = Top.article_ids,
                                          !.done = @ + 1]]
            /\ UNCHANGED <<pc, result, status, article_ids, pending>>
    /\ UNCHANGED <<other, searched, tool, email, parameters, _requestsMade, server,
                   op, req, response, articles, issued, failures>>

\* return article_ids: to the caller's article_ids += ..., or to the public
\* operation.
_getArticleIds_return ==
    /\ pc = "ids_loop"
    /\ Top.done = Len(Top.calls)
    /\ IF Len(stack) = 1
       THEN /\ stack' = <<>>
            /\ AfterIds(Top.article_ids)
       ELSE /\ stack' = [SubSeq(stack, 1, Len(stack) - 1)
                            EXCEPT ![Len(stack) - 1] =
                                [@ EXCEPT !.article_ids =
                                              concat(@, Top.article_ids),
                                          !.done = @ + 1]]
            /\ UNCHANGED <<pc, result, status, article_ids, pending>>
    /\ UNCHANGED <<other, searched, tool, email, parameters, _requestsMade, server, op, req,
                   response, articles, issued, failures>>

\* ------------------------------------------------------------- _getArticles

\* The request of _getArticles: a copy of the default parameters and the ids.
fetch_parameters(h, ids) == store(dict_copy(h), "id", ids)

\* The loop over the batches is over: the operation returns its records.
fetch_done ==
    /\ pc = "fetch_loop"
    /\ pending = <<>>
    /\ result' = [kind |-> "records", value |-> articles]
    /\ status' = "returned"
    /\ pc' = "idle"
    /\ UNCHANGED <<other, searched, tool, email, parameters, _requestsMade, server, op,
                   stack, req, response, pending, article_ids, articles, issued, failures>>

\* _getArticles on the next batch, up to its call of _get.
_getArticles ==
    /\ pc = "fetch_loop"
    /\ pending # <<>>
    /\ LET h == fetch_parameters(Handle(parameters), Head(pending))
       IN  /\ parameters' = h.self
           /\ req' = [url |-> "/entrez/eutils/efetch.fcgi",
                      parameters |-> load(h), output |-> "xml", ref |-> h.ref,
                      caller |-> "_getArticles"]
    /\ pc' = "get_check"
    /\ UNCHANGED <<other, searched, tool, email, _requestsMade, server, op, status,
                   result, stack, response, pending, article_ids, articles, issued, failures>>

\* Each batch replaces the records of the batches before it.
collect_last(name, sofar, records) ==
    IF name = "batch_query" THEN <<records>> ELSE records

\* What an operation adds to its output for one batch: batch_query yields the
\* list of the batch's records, query and get_publications_from_ids chain them.
collect(name, sofar, records) ==
    IF name = "batch_query" THEN Append(sofar, records) ELSE sofar \o records

\* The payload is parsed and its records are yielded.
_getArticles_yield ==
    /\ pc = "fetch_response"
    /\ articles' = collect(op.name, articles, parse(response.text))
    /\ pending' = Tail(pending)
    /\ pc' = "fetch_loop"
    /\ UNCHANGED <<other, searched, tool, email, parameters, _requestsMade, server, op,
                   status, result, stack, req, response, article_ids, issued,
                   failures>>

\* ------------------------------------------------------ the public operations

\* A public operation starts.
Begin(name, q, max_results, batch_size) ==
    /\ pc = "idle"
    /\ op' = [name |-> name, query |-> q, max_results |-> max_results,
              batch_size |-> batch_size]
    /\ status' = "running"
    /\ result' = None
    /\ articles' = <<>>
    /\ issued' = 0
    /\ failures' = 0
    /\ response' = None
    /\ searched' = <<>>
    /\ UNCHANGED other

query ==
    \E q \in Queries, max_results \in MaxResults :
        /\ Begin("query", q, max_results, FetchBatchSize)
        /\ Call_getArticleIds(<<>>, q, max_results, DefaultWindow)
        /\ article_ids' = <<>>
        /\ pending' = <<>>
        /\ UNCHANGED <<tool, email, _requestsMade, server>>

query_publication_ids ==
    \E q \in Queries, max_results \in MaxResults :
        /\ Begin("query_publication_ids", q, max_results, 0)
        /\ Call_getArticleIds(<<>>, q, max_results, DefaultWindow)
        /\ article_ids' = <<>>
        /\ pending' = <<>>
        /\ UNCHANGED <<tool, email, _requestsMade, server>>

get_publications_from_ids ==
    \E ids \in IdLists :
        /\ Begin("get_publications_from_ids", "", 0, FetchBatchSize)
        /\ article_ids' = ids
        /\ pending' = batches(ids, FetchBatchSize)
        /\ pc' = "fetch_loop"
        /\ req' = NoRequest
        /\ UNCHANGED <<tool, email, parameters, _requestsMade, server, stack>>

batch_query ==
    \E q \in Queries, batch_size \in BatchSizes :
        /\ Begin("batch_query", q, BatchQueryMaxResults, batch_size)
        /\ Call_getArticleIds(<<>>, q, BatchQueryMaxResults, DefaultWindow)
        /\ article_ids' = <<>>
        /\ pending' = <<>>
        /\ UNCHANGED <<tool, email, _requestsMade, server>>

\* _getArticleIds called on a window, up to its call of _get.
_getArticleIds ==
    \E q \in Queries, max_results \in MaxResults, w \in Windows :
        /\ Begin("_getArticleIds", q, max_results, 0)
        /\ Call_getArticleIds(<<>>, q, max_results, w)
        /\ article_ids' = <<>>
        /\ pending' = <<>>
        /\ UNCHANGED <<tool, email, _requestsMade, server>>

\* The request of getTotalResultsCount: a copy of the default parameters, the
\* term and retmax = 1.
count_parameters(h, q) ==
    store(store(dict_copy(h), "term", q), "retmax", CountRetMax)

getTotalResultsCount ==
    \E q \in Queries :
        /\ Begin("getTotalResultsCount", q, 0, 0)
        /\ LET h == count_parameters(Handle(parameters), q)
           IN  /\ parameters' = h.self
               /\ req' = [url |-> "/entrez/eutils/esearch.fcgi",
                          parameters |-> load(h), output |-> "json",
                          ref |-> h.ref, caller |-> "getTotalResultsCount"]
        /\ pc' = "get_check"
        /\ article_ids' = <<>>
        /\ pending' = <<>>
        /\ UNCHANGED <<tool, email, _requestsMade, server, stack>>

getTotalResultsCount_return ==
    /\ pc = "count_response"
    /\ result' = [kind |-> "count", value |-> response.count]
    /\ status' = "returned"
    /\ pc' = "idle"
    /\ UNCHANGED <<other, searched, tool, email, parameters, _requestsMade, server, op,
                   stack, req, response, pending, article_ids, articles, issued, failures>>

\* ------------------------------------------------------- the specification

\* The steps of the client itself.
Program ==
    \/ query
    \/ query_publication_ids
    \/ get_publications_from_ids
    \/ batch_query
    \/ getTotalResultsCount
    \/ getTotalResultsCount_return
    \/ _get_wait
    \/ _get_request
    \/ _get_return
    \/ _getArticleIds_response
    \/ _getArticleIds_recurse
    \/ _getArticleIds_return
    \/ _getArticles
    \/ _getArticles_yield
    \/ fetch_done

\* Every operation, on every database, by a client as fast as its limiter
\* allows.
Next == Program \/ TickWhileWaiting

Spec == Init /\ [][Next]_vars

\* One request after another, with the clock ticking at any moment.
NextClock ==
    \/ getTotalResultsCount
    \/ getTotalResultsCount_return
    \/ _get_wait
    \/ _get_request
    \/ _get_return
    \/ Tick

SpecClock == Init /\ [][NextClock]_vars

\* The same, with time that keeps advancing and a caller that keeps running:
\* the clock ticks again, the loop of _get makes its next check, and the
\* request that was let through is made.
FairSpecClock ==
    /\ SpecClock
    /\ WF_vars(Tick)
    /\ WF_vars(_get_wait)
    /\ WF_vars(_get_request)

\* Two callers of one client, their steps interleaved, and the clock.
NextShared ==
    \/ NextClock
    \/ shared_get
    \/ shared_get_wait
    \/ shared_get_request
    \/ shared_get_return

SpecShared == Init /\ [][NextShared]_vars

\* _getArticleIds on a window of the caller's choice.
NextWindow ==
    \/ _getArticleIds
    \/ _get_wait
    \/ _get_request
    \/ _get_return
    \/ _getArticleIds_response
    \/ _getArticleIds_recurse
    \/ _getArticleIds_return
    \/ TickWhileWaiting

SpecWindow == Init /\ [][NextWindow]_vars

\* ------------------------------------------------------------- the claims

\* The request and the response of the first search call of the operation.
RootParameters ==
    load(search_parameters(Handle(parameters),
                           Frame(op.query, op.max_results, DefaultWindow)))

RootResponse == esearch(server, RootParameters)

ReturnedIds == status = "returned" /\ op.name = "query_publication_ids"

\* C1: when the server's total match count for the requested window is at
\* most the cap of 10,000, query_publication_ids makes exactly one search call
\* and returns that call's idlist as it is.
C1_OneCallUnderCap ==
    (ReturnedIds /\ RootResponse.count <= RetMax) =>
        /\ issued = 1
        /\ result.value = RootResponse.idlist

\* C2: the list query_publication_ids returns holds at most max_results ids.
C2_AtMostMaxResults ==
    ReturnedIds => len(result.value) <= op.max_results

\* C3: whenever the caller is at a check of the limiter, the pruned log holds at
\* most _rateLimit requests of the last second.
C3_AtMostCeilingAtCheck ==
    pc = "get_check" => Len(Pruned(_requestsMade)) <= _rateLimit

\* Every id of the run occurs in the id list.
Covers(ids, run) ==
    \A x \in {run[1]} \cup {ids[k][2] + 1 : k \in 1..Len(ids)} :
        (run[1] <= x /\ x <= run[2]) =>
            \E k \in 1..Len(ids) : ids[k][1] <= x /\ x <= ids[k][2]

\* The entries of the database that match the operation's query.
Matches == Matching(server, [term |-> op.query])

\* C4: with max_results at least the total match count and no single day above
\* the cap, the list query_publication_ids returns holds every matching id.
C4_Complete ==
    ( /\ ReturnedIds
      /\ op.max_results >= len(IdsOf(Matches))
      /\ \A k \in 1..Len(Matches) : len(<<Matches[k].ids>>) <= RetMax ) =>
        \A k \in 1..Len(Matches) : Covers(result.value, Matches[k].ids)

\* The year span, month span and day span of a frame's window.
YearSpan(f) == f.max_year - f.min_year

MonthSpan(f) == f.max_month - f.min_month

DaySpan(f) == f.max_day - f.min_day

\* The window of frame g is strictly narrower than that of frame f: in years,
\* or else in months, or else in days.
Narrower(g, f) ==
    \/ YearSpan(g) < YearSpan(f)
    \/ YearSpan(g) = YearSpan(f) /\ MonthSpan(g) < MonthSpan(f)
    \/ /\ YearSpan(g) = YearSpan(f)
       /\ MonthSpan(g) = MonthSpan(f)
       /\ DaySpan(g) < DaySpan(f)

\* C5: every recursive call of _getArticleIds is on a window strictly narrower
\* than its caller's, no span is negative, and a call makes each of its finitely
\* many recursive calls once: the recursion is as deep as the year span allows
\* at most, and it ends.
C5_Narrowing ==
    /\ \A i \in 1..Len(stack) :
          /\ YearSpan(stack[i]) >= 0
          /\ MonthSpan(stack[i]) >= 0
          /\ DaySpan(stack[i]) >= 0
          /\ stack[i].done <= Len(stack[i].calls)
    /\ \A i \in 2..Len(stack) :
          /\ Narrower(stack[i], stack[i - 1])
          /\ stack[i - 1].done < Len(stack[i - 1].calls)
    /\ Len(stack) <= YearSpan(DefaultWindow) + 1

C5_DeepRecursion ==
    /\ Len(stack) >= 4
    /\ stack[Len(stack)].branch = "year"
    /\ stack[Len(stack)].done = Len(stack[Len(stack)].calls)

\* The retmax of a frame's request.
RetMaxOf(f) == Min(RetMax, f.max_results)

\* C6: a window of a single year with more matches than retmax is split by
\* months if it spans several, or else by days if it spans several, and is given
\* up only when it is a single day.
C6_GranularityPriority ==
    \A i \in 1..Len(stack) :
        LET f == stack[i]
        IN  ( /\ f.branch # "request"
              /\ f.total_result_count > RetMaxOf(f)
              /\ f.min_year = f.max_year ) =>
                /\ f.min_month # f.max_month => f.branch = "month"
                /\ (f.min_month = f.max_month /\ f.min_day # f.max_day) =>
                       f.branch = "day"
                /\ f.branch = "too_many" =>
                       (f.min_month = f.max_month /\ f.min_day = f.max_day)

C8_IdentificationStable ==
    /\ DOMAIN parameters = {"tool", "email", "db"}
    /\ parameters["tool"] = tool
    /\ parameters["email"] = email
    /\ parameters["db"] = "pubmed"
    /\ pc \in {"get_check", "get_send", "get_record"} =>
          /\ {"tool", "email", "db"} \subseteq DOMAIN req.parameters
          /\ req.parameters["tool"] = tool
          /\ req.parameters["email"] = email
          /\ req.parameters["db"] = "pubmed"

C8_LaterRequest ==
    /\ pc = "get_send"
    /\ req.url = "/entrez/eutils/efetch.fcgi"
    /\ issued >= 2
    /\ tool = "other_tool"
    /\ Len(_requestsMade) > 0

\* The runs of a list of batches of records, each named by its batch and its
\* place in it.
RunsOf(bs) ==
    UNION {{<<b, i>> : i \in 1..Len(bs[b])} : b \in 1..Len(bs)}

\* How many times the record of id x, of the kind, occurs in the batches.
Multiplicity(bs, kind, x) ==
    Cardinality({p \in RunsOf(bs) :
                    /\ bs[p[1]][p[2]][1] = kind
                    /\ bs[p[1]][p[2]][2] <= x
                    /\ x <= bs[p[1]][p[2]][3]})

\* The ids at which the multiplicity of a record may change.
Breaks(bs) ==
    UNION {{bs[p[1]][p[2]][2], bs[p[1]][p[2]][3] + 1} : p \in RunsOf(bs)}

\* The two lists of batches hold the same multiset of records.
SameRecords(as, bs) ==
    \A x \in Breaks(as) \cup Breaks(bs), kind \in {Article, Book} :
        Multiplicity(as, kind, x) = Multiplicity(bs, kind, x)

\* The batches of records an operation returned.
Returned == IF op.name = "batch_query" THEN result.value ELSE <<result.value>>

ReturnedRecords ==
    /\ status = "returned"
    /\ op.name \in {"query", "get_publications_from_ids", "batch_query"}

\* C9: whatever the batch size, the records an operation returns are, as a
\* multiset, the records of its id list fetched in one piece.
C9_ChunkSizeIrrelevant ==
    ReturnedRecords =>
        SameRecords(Returned, <<parse(efetch(server, article_ids))>>)

C9_ManyBatches ==
    /\ ReturnedRecords
    /\ op.name = "batch_query"
    /\ op.batch_size = 1
    /\ Len(result.value) > FetchBatchSize
    /\ \E b \in 1..Len(result.value) : result.value[b][1][1] = Book

\* C10: the year ranges of the calls of a year split cover every year of the
\* window that is split.
C10_YearSplitCovers ==
    \A i \in 1..Len(stack) :
        stack[i].branch = "year" =>
            \A y \in stack[i].min_year..stack[i].max_year :
                \E k \in 1..Len(stack[i].calls) :
                    /\ stack[i].calls[k].min_year <= y
                    /\ y <= stack[i].calls[k].max_year

\* The year ranges of calls k and l of a frame's split share no year.
YearsDisjoint(f, k, l) ==
    \/ f.calls[k].max_year < f.calls[l].min_year
    \/ f.calls[l].max_year < f.calls[k].min_year

\* C11: the year ranges of the calls of one year split are pairwise disjoint:
\* no year is searched by two calls of the same split.
C11_YearSplitDisjoint ==
    \A i \in 1..Len(stack) :
        stack[i].branch = "year" =>
            \A k, l \in 1..Len(stack[i].calls) :
                k # l => YearsDisjoint(stack[i], k, l)

\* The batch_count of a frame that has read its response, and the boundaries of
\* its year split.
BatchCountOf(f) == (f.total_result_count \div RetMaxOf(f)) + 1

YearBoundaries(f) ==
    {f.min_year + ((YearSpan(f) \div BatchCountOf(f)) * i) :
        i \in 0..(BatchCountOf(f) - 1)}

\* The split makes a call more than its boundaries: the call on [max_year,
\* max_year].
RemainderCalled(f) ==
    /\ Len(f.calls) = Cardinality(YearBoundaries(f)) + 1
    /\ f.calls[Len(f.calls)].min_year = f.max_year
    /\ f.calls[Len(f.calls)].max_year = f.max_year

\* C12: a year split makes the call on [max_year, max_year] exactly when the
\* year span is not a multiple of batch_count.
C12_RemainderConditional ==
    \A i \in 1..Len(stack) :
        stack[i].branch = "year" =>
            (RemainderCalled(stack[i])
                <=> (YearSpan(stack[i]) % BatchCountOf(stack[i]) # 0))

\* The runs of a sequence of id lists, one list after the other.
RECURSIVE Flat(_)
Flat(lists) ==
    IF lists = <<>> THEN <<>> ELSE Head(lists) \o Flat(Tail(lists))

\* The same ids, with every two runs that follow each other written as one.
RECURSIVE Merged(_)
Merged(runs) ==
    IF Len(runs) <= 1 THEN runs
    ELSE IF runs[1][2] + 1 = runs[2][1]
         THEN Merged(<< <<runs[1][1], runs[2][2]>> >> \o SubSeq(runs, 3, Len(runs)))
         ELSE <<runs[1]>> \o Merged(Tail(runs))

RECURSIVE SumLen(_)
SumLen(lists) ==
    IF lists = <<>> THEN 0 ELSE len(Head(lists)) + SumLen(Tail(lists))

\* The idlists of the terminal search responses (count <= retmax) numbered
\* from..to, in the order they were read.
IsTerminal(s) == s.branch = "all"

TerminalLists(from, to) ==
    LET part == SelectSeq(SubSeq(searched, from, to), IsTerminal)
    IN  [k \in 1..Len(part) |-> part[k].idlist]

\* The response the call of frame i read, and the last response read by the
\* calls it has made and that have returned.
Own(i) ==
    CHOOSE j \in 1..Len(searched) :
        /\ searched[j].depth = i
        /\ \A k \in (j + 1)..Len(searched) : searched[k].depth # i

Last(i) ==
    IF i = Len(stack) \/ stack[i + 1].branch = "request"
    THEN Len(searched)
    ELSE Own(i + 1) - 1

\* The responses read by the calls frame i made, in the order of the calls.
CallsMade(i) ==
    LET made(s) == s.depth = i + 1
    IN  SelectSeq(SubSeq(searched, Own(i) + 1, Last(i)), made)

\* The ids an operation got from _getArticleIds.
ResolvedIds ==
    IF op.name = "query_publication_ids" THEN result.value ELSE article_ids

Resolved ==
    /\ status = "returned"
    /\ op.name \in {"query", "query_publication_ids", "batch_query"}

\* C13: the list a call of _getArticleIds holds is the concatenation, in the
\* order they were issued, of the idlists of the terminal search calls made for
\* it so far (its own, or those of the calls it made and that returned); the
\* calls of a split are issued in ascending order of window start; and the
\* list an operation gets is the concatenation of the idlists of all its
\* terminal search calls, its length the sum of their lengths.
C13_Reassembly ==
    /\ \A i \in 1..Len(stack) :
          stack[i].branch # "request" =>
              /\ stack[i].article_ids
                     = Merged(Flat(TerminalLists(Own(i), Last(i))))
              /\ LET made == CallsMade(i)
                 IN  \A k \in 1..(Len(made) - 1) :
                         made[k].min_year <= made[k + 1].min_year
    /\ Resolved =>
          /\ ResolvedIds = Merged(Flat(TerminalLists(1, Len(searched))))
          /\ len(ResolvedIds) = SumLen(TerminalLists(1, Len(searched)))

C13_SeveralTerminals ==
    /\ ReturnedIds
    /\ Len(searched) >= 4
    /\ Cardinality({j \in 1..Len(searched) :
                       IsTerminal(searched[j]) /\ searched[j].idlist # <<>>}) >= 3

\* The call at the top of the stack has given up on its window.
GivesUp == pc = "ids_loop" /\ stack # <<>> /\ Top.branch = "too_many"

\* C14: a call that gives up on its window (as every call on a single day with
\* more matches than retmax does) holds an empty list and makes no call; its
\* next step is its return, which raises nothing and makes no request, and
\* after it the caller holds the list it held before, or the operation gets
\* the empty list.
C14_GiveUpLeaf ==
    [][GivesUp =>
          /\ Top.article_ids = <<>>
          /\ Top.calls = <<>>
          /\ issued' = issued
          /\ failures' = failures
          /\ searched' = searched
          /\ status' # "raised"
          /\ Len(stack') = Len(stack) - 1
          /\ IF Len(stack) = 1
             THEN IF op.name \in {"query_publication_ids", "_getArticleIds"}
                  THEN status' = "returned" /\ result'.value = <<>>
                  ELSE article_ids' = <<>>
             ELSE stack'[Len(stack')].article_ids
                      = stack[Len(stack')].article_ids]_vars

C14_SingleDayGivenUp ==
    /\ status = "returned"
    /\ op.name = "_getArticleIds"
    /\ result.value = <<>>
    /\ Len(searched) = 1
    /\ searched[1].branch = "too_many"
    /\ searched[1].idlist # <<>>
    /\ searched[1].min_year = searched[1].max_year
    /\ searched[1].min_month = searched[1].max_month
    /\ searched[1].min_day = searched[1].max_day

\* C15: a caller waiting at the limiter is let through after finitely many
\* checks, and its request is then made.
C15_LimiterLetsThrough ==
    (pc = "get_check") ~> (pc \notin {"get_check", "get_send"})

C15_Stalled ==
    /\ pc = "get_check"
    /\ _exceededRateLimit(_requestsMade)
    /\ \E i \in 1..Len(_requestsMade) : _requestsMade[i] > 0

\* The requests of the last second in the log.
RecentRequests == Len(Pruned(_requestsMade))

\* C16: two callers of one client, each let through by a check of its own,
\* record more requests in a second than a single caller can (_rateLimit + 1,
\* see C18): up to one more, and never more than that.
C16_SharedBound ==
    /\ RecentRequests <= _rateLimit + 2
    /\ (pc \in {"get_send", "get_record"} /\ other \in {"get_send", "get_record"})
           => RecentRequests <= _rateLimit

C16_BothLetThrough ==
    /\ RecentRequests > _rateLimit + 1
    /\ pc # "get_record"
    /\ other # "get_record"

\* The window w has no bound above its other bound.
WellFormed(w) ==
    /\ w.min_year <= w.max_year
    /\ w.min_month <= w.max_month
    /\ w.min_day <= w.max_day

\* The window w lies within the window f.
Within(w, f) ==
    /\ f.min_year <= w.min_year /\ w.max_year <= f.max_year
    /\ f.min_month <= w.min_month /\ w.max_month <= f.max_month
    /\ f.min_day <= w.min_day /\ w.max_day <= f.max_day

\* C17: from the default window, every search request of _getArticleIds is on
\* a window with min_year <= max_year, min_month <= max_month and min_day <=
\* max_day that lies within the window of the call that made it.
C17_WindowsWellFormed ==
    /\ \A i \in 1..Len(stack) :
          /\ WellFormed(stack[i])
          /\ i > 1 => Within(stack[i], stack[i - 1])
          /\ \A k \in 1..Len(stack[i].calls) :
                /\ WellFormed(stack[i].calls[k])
                /\ Within(stack[i].calls[k], stack[i])
    /\ (pc \in {"get_check", "get_send", "get_record"}
           /\ req.caller = "_getArticleIds") =>
          /\ DateLE(req.parameters["mindate"], req.parameters["maxdate"])
          /\ req.parameters["mindate"]
                 = <<Top.min_year, Top.min_month, Top.min_day>>
          /\ req.parameters["maxdate"]
                 = <<Top.max_year, Top.max_month, Top.max_day>>

C17_SingleYearRequest ==
    /\ pc = "get_send"
    /\ req.caller = "_getArticleIds"
    /\ Len(stack) >= 3
    /\ Top.min_year = Top.max_year
    /\ Top.min_year \notin {DefaultWindow.min_year, DefaultWindow.max_year}

\* C18: a single caller is let through by a check that leaves at most
\* _rateLimit requests in the log, records a request only when it has
\* succeeded, and so never has more than _rateLimit + 1 requests of the last
\* second in the log.
C18_AtMostCeilingPlusOne ==
    /\ RecentRequests <= _rateLimit + 1
    /\ pc \in {"get_send", "get_record"} => RecentRequests <= _rateLimit
    /\ pc = "get_record" => failures = 0

C18_CeilingPlusOne ==
    /\ RecentRequests = _rateLimit + 1
    /\ pc = "count_response"
    /\ \E i \in 1..Len(_requestsMade) : _requestsMade[i] > 0

\* A step of _get in which the request fails.
Fails == pc = "get_send" /\ failures' > failures

\* C19: a request that fails adds nothing to the log: the log after it is the
\* log its check pruned, and the only step that adds to the log is the one
\* after a request that succeeded.
C19_FailureNotRecorded ==
    [][ /\ Fails =>
              /\ _requestsMade' = _requestsMade
              /\ status' = "raised"
              /\ pc' = "idle"
        /\ (pc = "get_check" /\ pc' = "get_send") =>
              _requestsMade' = Pruned(_requestsMade)
        /\ Len(_requestsMade') > Len(_requestsMade) =>
              /\ pc = "get_record"
              /\ failures = 0
              /\ failures' = 0 ]_vars

C19_FailedAfterOthers ==
    /\ status = "raised"
    /\ failures = 1
    /\ pc = "idle"
    /\ op.name = "getTotalResultsCount"
    /\ Len(_requestsMade) = _rateLimit

====
